---- MODULE Spec2Model ----
(***************************************************************************)
(* Model of host/lib/usrp/usrp2/dsp_impl.cpp: the DDC (receive) and DUC    *)
(* (transmit) property handlers of usrp2_impl, the register writes they    *)
(* issue and the stream command exchange on the control channel.           *)
(*                                                                         *)
(* Numbers.  Frequencies are doubles in the source; here they are exact    *)
(* integers counted in units of clock/(2^WordBits * SubRes), so that the   *)
(* tuning word has WordBits bits (32 in the source) and SubRes requests    *)
(* fall between two neighbouring tuning words.  The arithmetic is that of  *)
(* the reals; the width of the word and of int is kept (2^WordBits).       *)
(***************************************************************************)
EXTENDS Integers, Sequences, FiniteSets, TLC

(***************************************************************************)
(* Bounds of the model.                                                    *)
(***************************************************************************)
WordBits == 3
SubRes == 2
FreqOver == 1
\* stream commands issued in one run, the one of init_ddc_config included
MaxCmds == 2

(***************************************************************************)
(* Program constants.                                                      *)
(***************************************************************************)
default_decim == 16
default_interp == 16
default_rx_scale_iq == 1024

\* control ids of the firmware's common header ('{' and '}')
USRP2_CTRL_ID_SEND_STREAM_COMMAND_FOR_ME_BRO == 123
USRP2_CTRL_ID_GOT_THAT_STREAM_COMMAND_DUDE == 125

\* _allowed_decim_and_interp_rates, filled by the device at start-up: every
\* rate from 4 to 128, every second one up to 256, every fourth one up to 512
allowed_decim_and_interp_rates ==
    (4 .. 128) \cup {130 + 2 * i : i \in 0 .. 63} \cup {260 + 4 * i : i \in 0 .. 63}

\* get_master_clock_freq(), in frequency units
scale_factor == 2 ^ WordBits
master_clock_freq == scale_factor * SubRes

\* range of int, scaled with the word
IntMax == 2 ^ (WordBits - 1) - 1
IntMin == -(2 ^ (WordBits - 1))

(***************************************************************************)
(* Inputs of the calls.                                                    *)
(***************************************************************************)
\* the default rate, a rate that is halved, a rate that is not allowed
RateInputs == {default_decim, 200, 3}
HalfClock == master_clock_freq \div 2
FreqInputs == (-(HalfClock + FreqOver)) .. (HalfClock + FreqOver)
\* a few requests: below zero, zero, the upper end of the range, beyond it
FreqSample == {-SubRes, 0, HalfClock, HalfClock + FreqOver}
StreamModes == {"STREAM_MODE_START_CONTINUOUS", "STREAM_MODE_STOP_CONTINUOUS",
                "STREAM_MODE_NUM_SAMPS_AND_DONE", "STREAM_MODE_NUM_SAMPS_AND_MORE"}
NumSampsInputs == {0, 300}
StreamCmds == [stream_mode : StreamModes, stream_now : BOOLEAN, num_samps : NumSampsInputs]
NoCmd == [stream_mode |-> "none", stream_now |-> FALSE, num_samps |-> 0]
KeyInputs == {"name", "if_rate", "bb_rate", "decim", "decims", "interp", "interps",
              "freq", "stream_cmd", "bogus"}
\* the keys of type dsp_prop_t
PropKeys == {"DSP_PROP_NAME", "DSP_PROP_OTHERS"}
\* ids a response may carry: the acknowledgment, or the id of the request
ResponseIds == {USRP2_CTRL_ID_GOT_THAT_STREAM_COMMAND_DUDE,
                USRP2_CTRL_ID_SEND_STREAM_COMMAND_FOR_ME_BRO}

VARIABLES
    dev,                \* the usrp2_impl members, the registers, the request in flight
    pc,                 \* where the program stands
    blocked_cmd,        \* argument of the issue_ddc_stream_cmd that is blocked
    last,               \* the call made last and how it ended
    twin,               \* the device of a second run (SpecTwin only)
    iround_min_raises   \* iround raises rounding_error at the most negative int
vars == <<dev, pc, blocked_cmd, last, twin, iround_min_raises>>

(***************************************************************************)
(* Helpers: byte order, rounding.                                          *)
(***************************************************************************)
\* htonl: the four bytes of x as they lie in memory afterwards (big-endian)
htonl(x) == <<(x \div 16777216) % 256, (x \div 65536) % 256, (x \div 256) % 256, x % 256>>

\* the host value of four big-endian bytes (htonl applied to a received field)
ntohl(b) == ((b[1] * 256 + b[2]) * 256 + b[3]) * 256 + b[4]

\* boost::math::round of the real n/d (d > 0): half away from zero
round(n, d) ==
    IF n >= 0 THEN (n \div d) + (IF 2 * (n % d) >= d THEN 1 ELSE 0)
    ELSE -(((-n) \div d) + (IF 2 * ((-n) % d) >= d THEN 1 ELSE 0))

\* boost::math::iround of n/d, as [throw, val].  The result has to fit an
\* int, else rounding_error is raised.  Releases of the library differ on the
\* most negative int (fabs(r) > max raises, r < min does not): which one the
\* build links is iround_min_raises, fixed from the start.
iround(n, d) ==
    LET r == round(n, d) IN
    IF r > IntMax \/ r < IntMin \/ (r = IntMin /\ iround_min_raises)
    THEN [throw |-> TRUE, val |-> 0]
    ELSE [throw |-> FALSE, val |-> r]

\* conversion of an int to boost::uint32_t (WordBits wide)
to_uint32(i) == i % scale_factor

(***************************************************************************)
(* Device state.                                                           *)
(***************************************************************************)
NoRequest == [sent |-> FALSE]

\* the usrp2_impl object before init_ddc_config: no member assigned, no
\* register written, nothing sent
NewDev == [ddc_decim |-> 0, ddc_freq |-> 0, duc_interp |-> 0, duc_freq |-> 0,
           regs |-> [a \in {} |-> 0], ctrl_out |-> NoRequest,
           cmds_issued |-> 0, ctrl_sent |-> 0, ctrl_recvd |-> 0]

poke32(d, addr, data) ==
    [d EXCEPT !.regs = [a \in (DOMAIN d.regs) \cup {addr} |->
                            IF a = addr THEN data ELSE d.regs[a]]]

Ok(d) == [dev |-> d, err |-> "none"]
Throw(d, e) == [dev |-> d, err |-> e]

(***************************************************************************)
(* DDC helper methods.                                                     *)
(***************************************************************************)
\* as [throw, word, freq]: word is the value returned, freq the reference
\* argument afterwards
calculate_freq_word_and_update_actual_freq(freq, clock_freq) ==
    LET o == iround(freq * scale_factor, clock_freq)
        freq_word == to_uint32(o.val)
    IN  IF o.throw THEN [throw |-> TRUE, word |-> 0, freq |-> freq]
        ELSE [throw |-> FALSE, word |-> freq_word,
              freq |-> (freq_word * clock_freq) \div scale_factor]

calculate_iq_scale_word(i, q) == ((i % 65536) * 65536) + (q % 65536)

update_ddc_config(d) ==
    poke32(poke32(d, "FR_DSP_RX_DECIM_RATE", d.ddc_decim),
           "FR_DSP_RX_SCALE_IQ",
           calculate_iq_scale_word(default_rx_scale_iq, default_rx_scale_iq))

\* the request, were the sample count of a stop command passed on as given
stream_cmd_out_data_stop_as_given(stream_cmd) ==
    [sent |-> TRUE,
     id |-> htonl(USRP2_CTRL_ID_SEND_STREAM_COMMAND_FOR_ME_BRO),
     now |-> IF stream_cmd.stream_now THEN 1 ELSE 0,
     continuous |-> IF stream_cmd.stream_mode = "STREAM_MODE_START_CONTINUOUS" THEN 1 ELSE 0,
     chain |-> IF stream_cmd.stream_mode = "STREAM_MODE_NUM_SAMPS_AND_MORE" THEN 1 ELSE 0,
     num_samps |-> htonl(stream_cmd.num_samps)]

\* the request issue_ddc_stream_cmd builds
stream_cmd_out_data(stream_cmd) ==
    [sent |-> TRUE,
     id |-> htonl(USRP2_CTRL_ID_SEND_STREAM_COMMAND_FOR_ME_BRO),
     now |-> IF stream_cmd.stream_now THEN 1 ELSE 0,
     continuous |-> IF stream_cmd.stream_mode = "STREAM_MODE_START_CONTINUOUS" THEN 1 ELSE 0,
     chain |-> IF stream_cmd.stream_mode = "STREAM_MODE_NUM_SAMPS_AND_MORE" THEN 1 ELSE 0,
     num_samps |-> IF stream_cmd.stream_mode = "STREAM_MODE_STOP_CONTINUOUS"
                   THEN htonl(0) ELSE htonl(stream_cmd.num_samps)]

\* first half, were the request handed to the control channel twice
issue_ddc_stream_cmd_send_twice(d, stream_cmd) ==
    [d EXCEPT !.ctrl_out = stream_cmd_out_data(stream_cmd),
              !.cmds_issued = @ + 1,
              !.ctrl_sent = @ + 2]

\* first half of issue_ddc_stream_cmd: build and send; the call and the
\* request handed to ctrl_send_and_recv are counted
issue_ddc_stream_cmd_send(d, stream_cmd) ==
    [d EXCEPT !.ctrl_out = stream_cmd_out_data(stream_cmd),
              !.cmds_issued = @ + 1,
              !.ctrl_sent = @ + 1]

\* second half, were the id of the response not checked
issue_ddc_stream_cmd_recv_unchecked(d, in_id) ==
    Ok([d EXCEPT !.ctrl_out = NoRequest, !.ctrl_recvd = @ + 1])

\* second half: ctrl_send_and_recv returns the response, its id is checked
issue_ddc_stream_cmd_recv(d, in_id) ==
    LET returned == [d EXCEPT !.ctrl_out = NoRequest, !.ctrl_recvd = @ + 1] IN
    IF ntohl(in_id) = USRP2_CTRL_ID_GOT_THAT_STREAM_COMMAND_DUDE
    THEN Ok(returned) ELSE Throw(returned, "ASSERT_THROW")

(***************************************************************************)
(* DUC helper methods.                                                     *)
(***************************************************************************)
RECURSIVE cic_interp_to_64(_)
\* the loop, were it to go on down to 64
cic_interp_to_64(tmp_interp) ==
    IF tmp_interp > 64 THEN cic_interp_to_64(tmp_interp \div 2) ELSE tmp_interp

RECURSIVE cic_interp(_)
\* while(tmp_interp > 128) tmp_interp /= 2
cic_interp(tmp_interp) ==
    IF tmp_interp > 128 THEN cic_interp(tmp_interp \div 2) ELSE tmp_interp

RECURSIVE ceil_log2_from(_, _)
\* least k >= k0 with 2^k >= x
ceil_log2_from(x, k0) == IF 2 ^ k0 >= x THEN k0 ELSE ceil_log2_from(x, k0 + 1)

\* ceil(log2(x)) for x >= 1
ceil_log2(x) == ceil_log2_from(x, 0)

\* <<quotient, remainder>> of twice (qr[1] * den + qr[2]) by den
double_divmod(qr, den) == <<2 * qr[1] + ((2 * qr[2]) \div den), (2 * qr[2]) % den>>

RECURSIVE mul_pow2_divmod(_, _, _)
\* <<quotient, remainder>> of (qr[1] * den + qr[2]) * 2^k by den, by doubling
mul_pow2_divmod(qr, k, den) ==
    IF k = 0 THEN qr
    ELSE CHOOSE res \in {mul_pow2_divmod(x, k - 1, den) : x \in {double_divmod(qr, den)}} : TRUE

\* rint((4096*std::pow(2, ceil(log2(interp_cubed))))/(1.65*interp_cubed))
duc_scale(interp_cubed) ==
    LET den == 165 * interp_cubed
        qr == mul_pow2_divmod(<<409600 \div den, 409600 % den>>, ceil_log2(interp_cubed), den)
    IN  qr[1] + (IF 2 * qr[2] >= den THEN 1 ELSE 0)

\* conversion to boost::int16_t
to_int16(x) == ((x + 32768) % 65536) - 32768

update_duc_config(d) ==
    LET tmp_interp == cic_interp(d.duc_interp)
        interp_cubed == tmp_interp * tmp_interp * tmp_interp
        scale == to_int16(duc_scale(interp_cubed))
    IN  poke32(poke32(d, "FR_DSP_TX_INTERP_RATE", d.ddc_decim),
               "FR_DSP_TX_SCALE_IQ", calculate_iq_scale_word(scale, scale))

(***************************************************************************)
(* DDC properties.                                                         *)
(***************************************************************************)
\* a double that is the quotient of two integers
Ratio(n, d) == [num |-> n, den |-> d]

\* ddc_get, as [val, err]
ddc_get(d, key_name) ==
    IF key_name = "DSP_PROP_NAME" THEN [val |-> "usrp2 ddc0", err |-> "none"]
    ELSE IF key_name = "DSP_PROP_OTHERS"
    THEN [val |-> <<"if_rate", "bb_rate", "decim", "decims", "freq", "stream_cmd">>, err |-> "none"]
    ELSE IF key_name = "if_rate" THEN [val |-> Ratio(master_clock_freq, 1), err |-> "none"]
    ELSE IF key_name = "bb_rate" THEN [val |-> Ratio(master_clock_freq, d.ddc_decim), err |-> "none"]
    ELSE IF key_name = "decim" THEN [val |-> d.ddc_decim, err |-> "none"]
    ELSE IF key_name = "decims" THEN [val |-> allowed_decim_and_interp_rates, err |-> "none"]
    ELSE IF key_name = "freq" THEN [val |-> Ratio(d.ddc_freq, 1), err |-> "none"]
    ELSE [val |-> key_name, err |-> "invalid_argument"]

\* the "decim" branch, were the rate not checked
ddc_set_decim_unchecked(d, new_decim) ==
    Ok(update_ddc_config([d EXCEPT !.ddc_decim = new_decim]))

\* the "decim" branch of ddc_set
ddc_set_decim(d, new_decim) ==
    IF new_decim \notin allowed_decim_and_interp_rates THEN Throw(d, "assert_has")
    ELSE Ok(update_ddc_config([d EXCEPT !.ddc_decim = new_decim]))

\* the "freq" branch, were the member assigned before the range is checked
ddc_set_freq_shadow_first(d, new_freq) ==
    LET shadow == [d EXCEPT !.ddc_freq = new_freq]
        o == calculate_freq_word_and_update_actual_freq(shadow.ddc_freq, master_clock_freq)
    IN  IF ~(2 * new_freq <= master_clock_freq) THEN Throw(shadow, "ASSERT_THROW")
        ELSE IF ~(2 * new_freq >= -master_clock_freq) THEN Throw(shadow, "ASSERT_THROW")
        ELSE IF o.throw THEN Throw(shadow, "rounding_error")
        ELSE Ok(poke32([shadow EXCEPT !.ddc_freq = o.freq], "FR_DSP_RX_FREQ", o.word))

\* the "freq" branch of ddc_set
ddc_set_freq(d, new_freq) ==
    IF ~(2 * new_freq <= master_clock_freq) THEN Throw(d, "ASSERT_THROW")
    ELSE IF ~(2 * new_freq >= -master_clock_freq) THEN Throw(d, "ASSERT_THROW")
    ELSE LET shadow == [d EXCEPT !.ddc_freq = new_freq]
             o == calculate_freq_word_and_update_actual_freq(shadow.ddc_freq, master_clock_freq)
         IN  IF o.throw THEN Throw(shadow, "rounding_error")
             ELSE Ok(poke32([shadow EXCEPT !.ddc_freq = o.freq], "FR_DSP_RX_FREQ", o.word))

\* ddc_set, were a stream command to bring the tuning back to zero first
ddc_set_cmd_retunes(d, key_name, val) ==
    IF key_name = "decim" THEN ddc_set_decim(d, val)
    ELSE IF key_name = "freq" THEN ddc_set_freq(d, val)
    ELSE IF key_name = "stream_cmd"
    THEN [dev |-> issue_ddc_stream_cmd_send(
                      poke32([d EXCEPT !.ddc_freq = 0], "FR_DSP_RX_FREQ", 0), val),
          err |-> "pending"]
    ELSE Throw(d, "invalid_argument")

\* ddc_set; with "stream_cmd" it is the call up to the point where it blocks
\* for the response ("pending")
ddc_set(d, key_name, val) ==
    IF key_name = "decim" THEN ddc_set_decim(d, val)
    ELSE IF key_name = "freq" THEN ddc_set_freq(d, val)
    ELSE IF key_name = "stream_cmd" THEN [dev |-> issue_ddc_stream_cmd_send(d, val), err |-> "pending"]
    ELSE Throw(d, "invalid_argument")

(***************************************************************************)
(* DUC properties.                                                         *)
(***************************************************************************)
\* duc_get, were "bb_rate" computed from the decimation
duc_get_from_decim(d, key_name) ==
    IF key_name = "DSP_PROP_NAME" THEN [val |-> "usrp2 duc0", err |-> "none"]
    ELSE IF key_name = "DSP_PROP_OTHERS"
    THEN [val |-> <<"if_rate", "bb_rate", "interp", "interps", "freq">>, err |-> "none"]
    ELSE IF key_name = "if_rate" THEN [val |-> Ratio(master_clock_freq, 1), err |-> "none"]
    ELSE IF key_name = "bb_rate" THEN [val |-> Ratio(master_clock_freq, d.ddc_decim), err |-> "none"]
    ELSE IF key_name = "interp" THEN [val |-> d.duc_interp, err |-> "none"]
    ELSE IF key_name = "interps" THEN [val |-> allowed_decim_and_interp_rates, err |-> "none"]
    ELSE IF key_name = "freq" THEN [val |-> Ratio(d.duc_freq, 1), err |-> "none"]
    ELSE [val |-> key_name, err |-> "invalid_argument"]

\* duc_get, as [val, err]
duc_get(d, key_name) ==
    IF key_name = "DSP_PROP_NAME" THEN [val |-> "usrp2 duc0", err |-> "none"]
    ELSE IF key_name = "DSP_PROP_OTHERS"
    THEN [val |-> <<"if_rate", "bb_rate", "interp", "interps", "freq">>, err |-> "none"]
    ELSE IF key_name = "if_rate" THEN [val |-> Ratio(master_clock_freq, 1), err |-> "none"]
    ELSE IF key_name = "bb_rate" THEN [val |-> Ratio(master_clock_freq, d.duc_interp), err |-> "none"]
    ELSE IF key_name = "interp" THEN [val |-> d.duc_interp, err |-> "none"]
    ELSE IF key_name = "interps" THEN [val |-> allowed_decim_and_interp_rates, err |-> "none"]
    ELSE IF key_name = "freq" THEN [val |-> Ratio(d.duc_freq, 1), err |-> "none"]
    ELSE [val |-> key_name, err |-> "invalid_argument"]

\* the "interp" branch, were the member assigned before the rate is checked
duc_set_interp_shadow_first(d, new_interp) ==
    IF new_interp \notin allowed_decim_and_interp_rates
    THEN Throw([d EXCEPT !.duc_interp = new_interp], "assert_has")
    ELSE Ok(update_duc_config([d EXCEPT !.duc_interp = new_interp]))

\* the "interp" branch of duc_set
duc_set_interp(d, new_interp) ==
    IF new_interp \notin allowed_decim_and_interp_rates THEN Throw(d, "assert_has")
    ELSE Ok(update_duc_config([d EXCEPT !.duc_interp = new_interp]))

\* the "freq" branch of duc_set
duc_set_freq(d, new_freq) ==
    IF ~(2 * new_freq <= master_clock_freq) THEN Throw(d, "ASSERT_THROW")
    ELSE IF ~(2 * new_freq >= -master_clock_freq) THEN Throw(d, "ASSERT_THROW")
    ELSE LET shadow == [d EXCEPT !.duc_freq = new_freq]
             o == calculate_freq_word_and_update_actual_freq(shadow.duc_freq, master_clock_freq)
         IN  IF o.throw THEN Throw(shadow, "rounding_error")
             ELSE Ok(poke32([shadow EXCEPT !.duc_freq = o.freq], "FR_DSP_TX_FREQ", o.word))

\* duc_set, were "decim" taken for "interp"
duc_set_decim_alias(d, key_name, val) ==
    IF key_name \in {"interp", "decim"} THEN duc_set_interp(d, val)
    ELSE IF key_name = "freq" THEN duc_set_freq(d, val)
    ELSE Throw(d, "invalid_argument")

duc_set(d, key_name, val) ==
    IF key_name = "interp" THEN duc_set_interp(d, val)
    ELSE IF key_name = "freq" THEN duc_set_freq(d, val)
    ELSE Throw(d, "invalid_argument")

(***************************************************************************)
(* Initialisation of the two channels.                                     *)
(***************************************************************************)
InitStopCmd ==
    [stream_mode |-> "STREAM_MODE_STOP_CONTINUOUS", stream_now |-> TRUE, num_samps |-> 0]

\* the initial config, were the update left out
init_ddc_config_members_only(d) ==
    [d EXCEPT !.ddc_decim = default_decim, !.ddc_freq = 0]

\* init_ddc_config, "initial config and update"
init_ddc_config_regs(d) ==
    update_ddc_config([d EXCEPT !.ddc_decim = default_decim, !.ddc_freq = 0])

\* init_ddc_config up to the point where its stream command is sent
init_ddc_config_send(d) ==
    issue_ddc_stream_cmd_send(init_ddc_config_regs(d), InitStopCmd)

init_duc_config(d) ==
    update_duc_config([d EXCEPT !.duc_interp = default_interp, !.duc_freq = 0])

\* the device once both channels are initialised, the stop command acknowledged
ReadyDev ==
    init_duc_config(
        issue_ddc_stream_cmd_recv(init_ddc_config_send(NewDev),
                                  htonl(USRP2_CTRL_ID_GOT_THAT_STREAM_COMMAND_DUDE)).dev)

(***************************************************************************)
(* The calls.                                                              *)
(***************************************************************************)
\* the values set(key) is called with
SetInputs(key_name, Rates, Freqs) ==
    IF key_name \in {"decim", "interp"} THEN Rates
    ELSE IF key_name = "freq" THEN Freqs
    ELSE {0}

\* a call and how it ended ("pending" while it is blocked)
Call(chan, op, key_name, err) == [chan |-> chan, op |-> op, key |-> key_name, err |-> err]

(***************************************************************************)
(* Actions.                                                                *)
(***************************************************************************)
Init ==
    /\ dev = NewDev
    /\ twin = NewDev
    /\ pc = "new"
    /\ blocked_cmd = NoCmd
    /\ last = Call("none", "none", "none", "none")
    /\ iround_min_raises \in BOOLEAN

\* the constructor runs init_ddc_config: members and registers
InitDdcConfig ==
    /\ pc = "new"
    /\ dev' = init_ddc_config_regs(dev)
    /\ pc' = "init_cfg"
    /\ last' = Call("rx", "init", "none", "none")
    /\ UNCHANGED <<blocked_cmd, twin, iround_min_raises>>

\* init_ddc_config goes on: the stop command goes out and the call blocks
InitDdcStreamCmd ==
    /\ pc = "init_cfg"
    /\ dev' = issue_ddc_stream_cmd_send(dev, InitStopCmd)
    /\ pc' = "init_await"
    /\ blocked_cmd' = InitStopCmd
    /\ last' = Call("rx", "init", "stream_cmd", "pending")
    /\ UNCHANGED <<twin, iround_min_raises>>

\* the response to the stop command of init_ddc_config arrives
InitDdcRecv(id) ==
    /\ pc = "init_await"
    /\ LET o == issue_ddc_stream_cmd_recv(dev, htonl(id)) IN
        /\ dev' = o.dev
        /\ pc' = IF o.err = "none" THEN "ddc_done" ELSE "failed"
        /\ last' = [last EXCEPT !.err = o.err]
    /\ blocked_cmd' = NoCmd
    /\ UNCHANGED <<twin, iround_min_raises>>

\* the constructor goes on with init_duc_config
InitDucConfig ==
    /\ pc = "ddc_done"
    /\ dev' = init_duc_config(dev)
    /\ pc' = "ready"
    /\ last' = Call("tx", "init", "none", "none")
    /\ UNCHANGED <<blocked_cmd, twin, iround_min_raises>>

DdcGet(key_name) ==
    /\ pc = "ready"
    /\ last' = Call("rx", "get", key_name, ddc_get(dev, key_name).err)
    /\ UNCHANGED <<dev, pc, blocked_cmd, twin, iround_min_raises>>

DucGet(key_name) ==
    /\ pc = "ready"
    /\ last' = Call("tx", "get", key_name, duc_get(dev, key_name).err)
    /\ UNCHANGED <<dev, pc, blocked_cmd, twin, iround_min_raises>>

\* ddc_set with any key but "stream_cmd"
DdcSet(key_name, val) ==
    /\ pc = "ready"
    /\ key_name # "stream_cmd"
    /\ LET o == ddc_set(dev, key_name, val) IN
        /\ dev' = o.dev
        /\ last' = Call("rx", "set", key_name, o.err)
    /\ UNCHANGED <<pc, blocked_cmd, twin, iround_min_raises>>

\* ddc_set("stream_cmd"): the request goes out and the call blocks
DdcSetStreamCmd(cmd) ==
    /\ pc = "ready"
    /\ dev' = ddc_set(dev, "stream_cmd", cmd).dev
    /\ pc' = "await"
    /\ blocked_cmd' = cmd
    /\ last' = Call("rx", "set", "stream_cmd", "pending")
    /\ UNCHANGED <<twin, iround_min_raises>>

\* the response arrives and ddc_set("stream_cmd") returns or throws
DdcStreamCmdRecv(id) ==
    /\ pc = "await"
    /\ LET o == issue_ddc_stream_cmd_recv(dev, htonl(id)) IN
        /\ dev' = o.dev
        /\ last' = [last EXCEPT !.err = o.err]
    /\ pc' = "ready"
    /\ blocked_cmd' = NoCmd
    /\ UNCHANGED <<twin, iround_min_raises>>

DucSet(key_name, val) ==
    /\ pc = "ready"
    /\ LET o == duc_set(dev, key_name, val) IN
        /\ dev' = o.dev
        /\ last' = Call("tx", "set", key_name, o.err)
    /\ UNCHANGED <<pc, blocked_cmd, twin, iround_min_raises>>

\* the steps of the program, the calls drawing from the given inputs
NextOf(GetKeys, Keys, Rates, Freqs, Cmds) ==
    \/ InitDdcConfig
    \/ InitDdcStreamCmd
    \/ \E id \in ResponseIds : InitDdcRecv(id)
    \/ InitDucConfig
    \/ \E k \in GetKeys : DdcGet(k)
    \/ \E k \in GetKeys : DucGet(k)
    \/ \E k \in Keys : \E v \in SetInputs(k, Rates, Freqs) : DdcSet(k, v)
    \/ \E c \in Cmds : dev.cmds_issued < MaxCmds /\ DdcSetStreamCmd(c)
    \/ \E id \in ResponseIds : DdcStreamCmdRecv(id)
    \/ \E k \in Keys : \E v \in SetInputs(k, Rates, Freqs) : DucSet(k, v)

\* every call, the frequencies from the sample
Next == NextOf(KeyInputs \cup PropKeys, KeyInputs, RateInputs, FreqSample, StreamCmds)

Spec == Init /\ [][Next]_vars

\* every frequency of the range on both channels, few of the other calls
TuneKeys == {"freq"}
TuneCmds == {InitStopCmd}
NextTune == NextOf(TuneKeys, TuneKeys, {default_decim}, FreqInputs, TuneCmds)

SpecTune == Init /\ [][NextTune]_vars

\* the initialised device, set("interp") with every allowed rate
ScaleInit ==
    /\ dev = ReadyDev
    /\ twin = NewDev
    /\ pc = "ready"
    /\ blocked_cmd = NoCmd
    /\ last = Call("none", "none", "none", "none")
    /\ iround_min_raises \in BOOLEAN

NextScale == \E r \in allowed_decim_and_interp_rates : DucSet("interp", r)

SpecScale == ScaleInit /\ [][NextScale]_vars

(***************************************************************************)
(* Two runs side by side: dev and twin receive the same calls on the       *)
(* transmit channel, and each its own calls on the receive channel.        *)
(***************************************************************************)
TwinFreqs == {-SubRes, 0, HalfClock + FreqOver}

TwinInit ==
    /\ dev = ReadyDev
    /\ twin = ReadyDev
    /\ pc = "ready"
    /\ blocked_cmd = NoCmd
    /\ last = Call("none", "none", "none", "none")
    /\ iround_min_raises \in BOOLEAN

\* the same duc_set in both runs
TwinDucSet(key_name, val) ==
    /\ dev' = duc_set(dev, key_name, val).dev
    /\ twin' = duc_set(twin, key_name, val).dev
    /\ UNCHANGED <<pc, blocked_cmd, last, iround_min_raises>>

\* a ddc_set in the first run only
TwinDdcSetDev(key_name, val) ==
    /\ key_name # "stream_cmd"
    /\ dev' = ddc_set(dev, key_name, val).dev
    /\ UNCHANGED <<twin, pc, blocked_cmd, last, iround_min_raises>>

\* a ddc_set in the second run only
TwinDdcSetTwin(key_name, val) ==
    /\ key_name # "stream_cmd"
    /\ twin' = ddc_set(twin, key_name, val).dev
    /\ UNCHANGED <<dev, pc, blocked_cmd, last, iround_min_raises>>

\* ddc_set("stream_cmd") from the request to the response, first run only
TwinStreamCmdDev(cmd, id) ==
    /\ dev' = issue_ddc_stream_cmd_recv(issue_ddc_stream_cmd_send(dev, cmd), htonl(id)).dev
    /\ last' = Call("rx", "set", "stream_cmd", "none")
    /\ UNCHANGED <<twin, pc, blocked_cmd, iround_min_raises>>

NextTwin ==
    \/ \E k \in KeyInputs : \E v \in SetInputs(k, RateInputs, TwinFreqs) : TwinDucSet(k, v)
    \/ \E k \in KeyInputs : \E v \in SetInputs(k, RateInputs, TwinFreqs) : TwinDdcSetDev(k, v)
    \/ \E k \in KeyInputs : \E v \in SetInputs(k, RateInputs, TwinFreqs) : TwinDdcSetTwin(k, v)
    \/ \E c \in TuneCmds : \E id \in ResponseIds :
          dev.cmds_issued < MaxCmds /\ TwinStreamCmdDev(c, id)

SpecTwin == TwinInit /\ [][NextTwin]_vars

(***************************************************************************)
(* What a channel owns.                                                    *)
(***************************************************************************)
RxRegs == {"FR_DSP_RX_DECIM_RATE", "FR_DSP_RX_SCALE_IQ", "FR_DSP_RX_FREQ"}
TxRegs == {"FR_DSP_TX_INTERP_RATE", "FR_DSP_TX_SCALE_IQ", "FR_DSP_TX_FREQ"}

RegsOf(d, addrs) == [a \in (DOMAIN d.regs) \cap addrs |-> d.regs[a]]

RxView(d) == [decim |-> d.ddc_decim, freq |-> d.ddc_freq, regs |-> RegsOf(d, RxRegs)]
TxView(d) == [interp |-> d.duc_interp, freq |-> d.duc_freq, regs |-> RegsOf(d, TxRegs)]

\* both channels are initialised
Initialised == pc \in {"ready", "await"}

\* the tuning word read as a signed value
SignedWord(w) == IF w >= 2 ^ (WordBits - 1) THEN w - scale_factor ELSE w

InRange(f) == 2 * f <= master_clock_freq /\ 2 * f >= -master_clock_freq

(***************************************************************************)
(* C1.  Once the device is initialised, the decimation-rate register       *)
(* equals the stored decimation and the interpolation-rate register equals *)
(* the stored interpolation.                                               *)
(***************************************************************************)
C1_RateRegistersMirror ==
    Initialised =>
        /\ dev.regs["FR_DSP_RX_DECIM_RATE"] = dev.ddc_decim
        /\ dev.regs["FR_DSP_TX_INTERP_RATE"] = dev.duc_interp

(***************************************************************************)
(* C2.  Two runs with the same transmit calls and any receive calls agree  *)
(* on the transmit registers and the transmit configuration, and a         *)
(* transmit set call changes no receive register and no receive            *)
(* configuration.                                                          *)
(***************************************************************************)
C2_ChannelsIndependent ==
    /\ [](TxView(dev) = TxView(twin))
    /\ [][(\E k \in KeyInputs : \E v \in SetInputs(k, RateInputs, TwinFreqs) : TwinDucSet(k, v))
            => (RxView(dev') = RxView(dev) /\ RxView(twin') = RxView(twin))]_vars

(***************************************************************************)
(* C3.  The stored frequency of each channel is within half the clock rate *)
(* of zero in every state of the initialised device.                       *)
(***************************************************************************)
C3_FreqWithinNyquist ==
    Initialised => (InRange(dev.ddc_freq) /\ InRange(dev.duc_freq))

(***************************************************************************)
(* C4.  Every request within half the clock rate (ends included) succeeds, *)
(* writes round-half-away(freq / clock * 2^bits) modulo 2^bits to the      *)
(* frequency register and stores word / 2^bits * clock, the word read as a *)
(* signed value.                                                           *)
(***************************************************************************)
TunedAsClaimed(o, addr, stored, f) ==
    /\ o.err = "none"
    /\ addr \in DOMAIN o.dev.regs
    /\ o.dev.regs[addr] = round(f * scale_factor, master_clock_freq) % scale_factor
    /\ stored * scale_factor = SignedWord(o.dev.regs[addr]) * master_clock_freq

C4_TuneWordAndFreq ==
    pc = "ready" =>
        \A f \in FreqInputs : InRange(f) =>
            /\ LET o == ddc_set(dev, "freq", f) IN TunedAsClaimed(o, "FR_DSP_RX_FREQ", o.dev.ddc_freq, f)
            /\ LET o == duc_set(dev, "freq", f) IN TunedAsClaimed(o, "FR_DSP_TX_FREQ", o.dev.duc_freq, f)

(***************************************************************************)
(* C5.  In every state of the initialised device the stored rate of each   *)
(* channel is one of the allowed rates.                                    *)
(***************************************************************************)
C5_RateAllowed ==
    Initialised =>
        /\ dev.ddc_decim \in allowed_decim_and_interp_rates
        /\ dev.duc_interp \in allowed_decim_and_interp_rates

\* a rate other than the default is stored and a later set("decim") was refused
C5_Witness ==
    /\ Initialised
    /\ last = Call("rx", "set", "decim", "assert_has")
    /\ dev.ddc_decim # default_decim

(***************************************************************************)
(* C6.  set("decim") on receive and set("interp") on transmit with a rate  *)
(* that is not allowed fail, and leave the stored rate, bb_rate and every  *)
(* register as they were.                                                  *)
(***************************************************************************)
RateProbe == ((0 .. 20) \cup {129, 199, 201, 513}) \ allowed_decim_and_interp_rates

C6_BadRateRejected ==
    pc = "ready" =>
        \A r \in RateProbe :
            /\ LET o == ddc_set(dev, "decim", r) IN
                /\ o.err = "assert_has"
                /\ o.dev = dev
                /\ ddc_get(o.dev, "bb_rate") = ddc_get(dev, "bb_rate")
            /\ LET o == duc_set(dev, "interp", r) IN
                /\ o.err = "assert_has"
                /\ o.dev = dev
                /\ duc_get(o.dev, "bb_rate") = duc_get(dev, "bb_rate")

\* set("interp") was refused while a rate other than the default is stored
C6_Witness ==
    /\ pc = "ready"
    /\ last = Call("tx", "set", "interp", "assert_has")
    /\ dev.duc_interp # default_interp

(***************************************************************************)
(* C7.  set("freq") beyond half the clock rate fails on either channel and *)
(* leaves the stored frequency and the registers as they were.             *)
(***************************************************************************)
C7_OutOfRangeFreqRejected ==
    pc = "ready" =>
        \A f \in FreqInputs : ~InRange(f) =>
            /\ ddc_set(dev, "freq", f) = Throw(dev, "ASSERT_THROW")
            /\ duc_set(dev, "freq", f) = Throw(dev, "ASSERT_THROW")

\* a tuned receive channel has refused a request
C7_Witness ==
    /\ pc = "ready"
    /\ last = Call("rx", "set", "freq", "ASSERT_THROW")
    /\ "FR_DSP_RX_FREQ" \in DOMAIN dev.regs
    /\ dev.ddc_freq # 0

(***************************************************************************)
(* C8.  The request in flight carries (continuous, chain, num_samps) as    *)
(* the table gives them for the mode of the command, zero samples for a    *)
(* stop whatever the caller gave, and now = 1 exactly for an immediate     *)
(* command.                                                                *)
(***************************************************************************)
EncodingTable(cmd) ==
    CASE cmd.stream_mode = "STREAM_MODE_START_CONTINUOUS" -> <<1, 0, cmd.num_samps>>
      [] cmd.stream_mode = "STREAM_MODE_STOP_CONTINUOUS" -> <<0, 0, 0>>
      [] cmd.stream_mode = "STREAM_MODE_NUM_SAMPS_AND_DONE" -> <<0, 0, cmd.num_samps>>
      [] cmd.stream_mode = "STREAM_MODE_NUM_SAMPS_AND_MORE" -> <<0, 1, cmd.num_samps>>

C8_StreamCmdEncoding ==
    pc \in {"await", "init_await"} =>
        /\ dev.ctrl_out.sent
        /\ <<dev.ctrl_out.continuous, dev.ctrl_out.chain, ntohl(dev.ctrl_out.num_samps)>>
              = EncodingTable(blocked_cmd)
        /\ (dev.ctrl_out.now = 1) <=> blocked_cmd.stream_now
        /\ dev.ctrl_out.now \in {0, 1}

\* a stop command given a sample count is in flight
C8_Witness ==
    /\ pc = "await"
    /\ blocked_cmd.stream_mode = "STREAM_MODE_STOP_CONTINUOUS"
    /\ blocked_cmd.num_samps # 0
    /\ ~blocked_cmd.stream_now

(***************************************************************************)
(* C9.  A response with another id than the acknowledgment makes           *)
(* set("stream_cmd") fail; nothing is in flight afterwards, configuration  *)
(* and registers are as before, and every stream command and every set     *)
(* call can be made again.                                                 *)
(***************************************************************************)
Config(d) == [rx |-> RxView(d), tx |-> TxView(d)]

C9_AckMismatchNotSticky ==
    /\ pc = "await" =>
          \A id \in ResponseIds \ {USRP2_CTRL_ID_GOT_THAT_STREAM_COMMAND_DUDE} :
              LET o == issue_ddc_stream_cmd_recv(dev, htonl(id)) IN
                  /\ o.err = "ASSERT_THROW"
                  /\ o.dev.ctrl_out = NoRequest
                  /\ Config(o.dev) = Config(dev)
    /\ last = Call("rx", "set", "stream_cmd", "ASSERT_THROW") =>
          /\ pc = "ready"
          /\ blocked_cmd = NoCmd
          /\ dev.ctrl_out = NoRequest
          /\ \A c \in StreamCmds : ENABLED DdcSetStreamCmd(c)
          /\ \A k \in {"decim", "freq"} : \A v \in SetInputs(k, RateInputs, FreqSample) :
                ENABLED DdcSet(k, v)
          /\ \A k \in {"interp", "freq"} : \A v \in SetInputs(k, RateInputs, FreqSample) :
                ENABLED DucSet(k, v)

\* a stream command has failed on its response after the channel was tuned
C9_Witness ==
    /\ last = Call("rx", "set", "stream_cmd", "ASSERT_THROW")
    /\ "FR_DSP_RX_FREQ" \in DOMAIN dev.regs

(***************************************************************************)
(* C10.  get and set with a name the channel does not know fail with the   *)
(* unknown-key error and leave the device as it was: on transmit           *)
(* "stream_cmd" and "decim", on receive "interp", on both the read-only    *)
(* names.                                                                  *)
(***************************************************************************)
RxNames == {"name", "if_rate", "bb_rate", "decim", "decims", "freq", "stream_cmd"}
TxNames == {"name", "if_rate", "bb_rate", "interp", "interps", "freq"}
RxSettable == {"decim", "freq", "stream_cmd"}
TxSettable == {"interp", "freq"}

C10_UnknownKeyRejected ==
    /\ [](pc = "ready" =>
            \A k \in KeyInputs :
                /\ k \notin RxSettable => ddc_set(dev, k, 0) = Throw(dev, "invalid_argument")
                /\ k \notin TxSettable => duc_set(dev, k, 0) = Throw(dev, "invalid_argument")
                /\ k \notin RxNames => ddc_get(dev, k).err = "invalid_argument"
                /\ k \notin TxNames => duc_get(dev, k).err = "invalid_argument")
    /\ [][(last'.op = "get" /\ last'.err = "invalid_argument") => dev' = dev]_vars

\* set("stream_cmd") was refused by the transmit channel
C10_Witness ==
    /\ pc = "ready"
    /\ last = Call("tx", "set", "stream_cmd", "invalid_argument")

(***************************************************************************)
(* C11.  After set("interp", r) with an allowed r both 16-bit halves of    *)
(* the IQ-scale register hold round(4096 * 2^ceil(log2(c^3)) / (1.65 *     *)
(* c^3)), c being r halved while above 128; the value fits 16 signed bits  *)
(* and depends on r alone.                                                 *)
(***************************************************************************)
\* r halved k times, for the least k that brings it to 128 or below
CoarseFactor(r) ==
    LET k == CHOOSE j \in 0 .. 30 :
                 /\ r \div (2 ^ j) <= 128
                 /\ \A i \in 0 .. (j - 1) : r \div (2 ^ i) > 128
    IN  r \div (2 ^ k)

\* the least power of two that is no less than g
CeilPow2(g) == CHOOSE p \in {2 ^ j : j \in 0 .. 30} : p >= g /\ p < 2 * g

RECURSIVE FracLeq(_, _, _, _)
\* a/b <= c/d for a, c >= 0 and b, d > 0, without forming a product
FracLeq(a, b, c, d) ==
    IF a \div b # c \div d THEN a \div b < c \div d
    ELSE IF a % b = 0 THEN TRUE
    ELSE IF c % d = 0 THEN FALSE
    ELSE CHOOSE res \in {FracLeq(x[1], x[2], x[3], x[4]) : x \in {<<d, c % d, b, a % b>>}} : TRUE

\* s - 1/2 <= 4096 * p / (1.65 * g) < s + 1/2
RoundsToScale(s, p, g) ==
    /\ FracLeq((2 * s - 1) * 165, 819200, p, g)
    /\ ~FracLeq((2 * s + 1) * 165, 819200, p, g)

ScaleAsClaimed(word, r) ==
    LET c == CoarseFactor(r)
        gain == c * c * c
        i == word \div 65536
        q == word % 65536
    IN  /\ i = q
        /\ i >= 0 /\ i <= 32767
        /\ RoundsToScale(i, CeilPow2(gain), gain)

C11_IqScale ==
    (last = Call("tx", "set", "interp", "none")) =>
        /\ dev.duc_interp \in allowed_decim_and_interp_rates
        /\ ScaleAsClaimed(dev.regs["FR_DSP_TX_SCALE_IQ"], dev.duc_interp)

\* a rate that is halved twice was set
C11_Witness ==
    /\ last = Call("tx", "set", "interp", "none")
    /\ dev.duc_interp > 256
    /\ "FR_DSP_TX_SCALE_IQ" \in DOMAIN dev.regs

(***************************************************************************)
(* C12.  A get call, whether it returns or throws, changes no stored rate  *)
(* or frequency, no register and nothing on the control channel, and       *)
(* get("bb_rate") returns the clock rate divided by the rate stored for    *)
(* the channel.                                                            *)
(***************************************************************************)
\* the value a get returned is the clock rate over rate
IsClockOver(o, rate) ==
    /\ o.err = "none"
    /\ o.val.den # 0
    /\ o.val.num * rate = master_clock_freq * o.val.den

C12_GetIsPure ==
    /\ [][last'.op = "get" => (dev' = dev /\ pc' = pc /\ blocked_cmd' = blocked_cmd)]_vars
    /\ [](pc = "ready" =>
            /\ IsClockOver(ddc_get(dev, "bb_rate"), dev.ddc_decim)
            /\ IsClockOver(duc_get(dev, "bb_rate"), dev.duc_interp))

\* get("bb_rate") on transmit while the two channels have different rates
C12_Witness ==
    /\ last = Call("tx", "get", "bb_rate", "none")
    /\ dev.duc_interp # dev.ddc_decim
    /\ dev.duc_interp # default_interp

(***************************************************************************)
(* C13.  At most one exchange is outstanding on the control channel: a     *)
(* request goes out only from a stream command issued while nothing is     *)
(* outstanding, the call stays blocked until the response, no other step   *)
(* happens in between, a failed exchange sends nothing more, and the       *)
(* requests sent are as many as the stream commands issued, the one of     *)
(* init_ddc_config included.                                               *)
(***************************************************************************)
Outstanding(d) == d.ctrl_sent - d.ctrl_recvd

Blocked == pc \in {"init_await", "await"}

C13_OneExchangeNoRetry ==
    /\ [](/\ Outstanding(dev) \in {0, 1}
          /\ Outstanding(dev) = 1 <=> Blocked
          /\ Outstanding(dev) = 1 <=> dev.ctrl_out.sent
          /\ dev.ctrl_sent = dev.cmds_issued)
    /\ [][/\ dev'.ctrl_sent # dev.ctrl_sent =>
                /\ Outstanding(dev) = 0
                /\ dev'.ctrl_sent = dev.ctrl_sent + 1
                /\ dev'.ctrl_recvd = dev.ctrl_recvd
                /\ last'.key = "stream_cmd" /\ last'.err = "pending"
          /\ Outstanding(dev) = 1 =>
                /\ dev'.ctrl_sent = dev.ctrl_sent
                /\ dev'.ctrl_recvd = dev.ctrl_recvd + 1
                /\ last'.err \in {"none", "ASSERT_THROW"}
                /\ ~Blocked']_vars

\* a stream command after the one of init_ddc_config has failed and returned
C13_Witness ==
    /\ last = Call("rx", "set", "stream_cmd", "ASSERT_THROW")
    /\ pc = "ready"
    /\ dev.cmds_issued = MaxCmds
    /\ dev.ctrl_sent = MaxCmds
    /\ dev.ctrl_recvd = MaxCmds

(***************************************************************************)
(* C14.  set("stream_cmd") on the receive channel, from the request to     *)
(* the return or the throw, writes no register and changes no stored rate  *)
(* or frequency of either channel; set("decim"), set("interp") and         *)
(* set("freq") send nothing on the control channel.                        *)
(***************************************************************************)
Channel(d) == [out |-> d.ctrl_out, sent |-> d.ctrl_sent, recvd |-> d.ctrl_recvd,
               issued |-> d.cmds_issued]

C14_StreamCmdAndConfigApart ==
    [][/\ (last'.chan = "rx" /\ last'.op = "set" /\ last'.key = "stream_cmd") =>
              Config(dev') = Config(dev)
       /\ (last'.op = "set" /\ last'.key \in {"decim", "interp", "freq"}) =>
              Channel(dev') = Channel(dev)]_vars

\* a stream command has returned on a device whose configuration was changed
C14_Witness ==
    /\ last = Call("rx", "set", "stream_cmd", "none")
    /\ pc = "ready"
    /\ dev.ddc_decim # default_decim
    /\ "FR_DSP_RX_FREQ" \in DOMAIN dev.regs
    /\ dev.regs["FR_DSP_RX_FREQ"] # 0

(***************************************************************************)
(* C15.  set("freq") on either channel either fails and leaves the stored  *)
(* frequency and the registers as they were, or succeeds with the new      *)
(* tuning word in the frequency register and the frequency of that word    *)
(* stored; this for every request, those at plus and minus half the clock  *)
(* included.                                                               *)
(***************************************************************************)
\* stored is the frequency of the word, read signed or unsigned
FreqOfWord(stored, word) ==
    \/ stored * scale_factor = word * master_clock_freq
    \/ stored * scale_factor = SignedWord(word) * master_clock_freq

AllOrNothing(d, o, addr, stored_before, stored_after, f) ==
    \/ /\ o.err # "none"
       /\ stored_after = stored_before
       /\ o.dev.regs = d.regs
    \/ /\ o.err = "none"
       /\ addr \in DOMAIN o.dev.regs
       /\ o.dev.regs[addr] = round(f * scale_factor, master_clock_freq) % scale_factor
       /\ FreqOfWord(stored_after, o.dev.regs[addr])

C15_FreqAllOrNothing ==
    pc = "ready" =>
        \A f \in FreqInputs :
            /\ LET o == ddc_set(dev, "freq", f)
               IN AllOrNothing(dev, o, "FR_DSP_RX_FREQ", dev.ddc_freq, o.dev.ddc_freq, f)
            /\ LET o == duc_set(dev, "freq", f)
               IN AllOrNothing(dev, o, "FR_DSP_TX_FREQ", dev.duc_freq, o.dev.duc_freq, f)

(***************************************************************************)
(* C16.  After a successful set("freq", f) on a channel, setting the       *)
(* frequency that get("freq") returns succeeds and leaves the stored       *)
(* frequency and the frequency register as they are, for negative f as for *)
(* the others.                                                             *)
(***************************************************************************)
\* the value of get("freq") as the argument of a set: a whole number here
AsFreq(ratio) == ratio.num \div ratio.den

C16_RetuneToOwnOutput ==
    pc = "ready" =>
        \A f \in FreqInputs :
            /\ LET o1 == ddc_set(dev, "freq", f)
                   o2 == ddc_set(o1.dev, "freq", AsFreq(ddc_get(o1.dev, "freq").val))
               IN o1.err = "none" =>
                     /\ o2.err = "none"
                     /\ o2.dev.ddc_freq = o1.dev.ddc_freq
                     /\ o2.dev.regs = o1.dev.regs
            /\ LET o1 == duc_set(dev, "freq", f)
                   o2 == duc_set(o1.dev, "freq", AsFreq(duc_get(o1.dev, "freq").val))
               IN o1.err = "none" =>
                     /\ o2.err = "none"
                     /\ o2.dev.duc_freq = o1.dev.duc_freq
                     /\ o2.dev.regs = o1.dev.regs

(***************************************************************************)
(* C17.  init_ddc_config stores the default decimation 16 and frequency 0  *)
(* and writes the decimation-rate and IQ-scale registers, and only then    *)
(* sends one stream command, a stop with continuous 0, chain 0 and no      *)
(* samples; init_duc_config stores interpolation 16 and frequency 0 and    *)
(* sends nothing.                                                          *)
(***************************************************************************)
RxDefaults(d) ==
    /\ d.ddc_decim = 16
    /\ d.ddc_freq = 0
    /\ {"FR_DSP_RX_DECIM_RATE", "FR_DSP_RX_SCALE_IQ"} \subseteq DOMAIN d.regs
    /\ d.regs["FR_DSP_RX_DECIM_RATE"] = 16

C17_InitOrder ==
    /\ [](/\ pc = "new" => dev.ctrl_sent = 0
          /\ pc = "init_cfg" => (RxDefaults(dev) /\ dev.ctrl_sent = 0 /\ ~dev.ctrl_out.sent)
          /\ pc = "init_await" =>
                /\ RxDefaults(dev)
                /\ dev.ctrl_sent = 1 /\ dev.cmds_issued = 1
                /\ blocked_cmd.stream_mode = "STREAM_MODE_STOP_CONTINUOUS"
                /\ dev.ctrl_out.sent
                /\ dev.ctrl_out.continuous = 0
                /\ dev.ctrl_out.chain = 0
                /\ ntohl(dev.ctrl_out.num_samps) = 0
          /\ pc \in {"ddc_done", "failed"} => (dev.ctrl_sent = 1 /\ dev.cmds_issued = 1)
          /\ last = Call("tx", "init", "none", "none") =>
                /\ dev.duc_interp = 16
                /\ dev.duc_freq = 0
                /\ dev.ctrl_sent = 1 /\ dev.cmds_issued = 1
                /\ ~dev.ctrl_out.sent)
    /\ [][/\ (last'.op = "init" /\ dev'.ctrl_sent # dev.ctrl_sent) =>
                /\ RxDefaults(dev)
                /\ Config(dev') = Config(dev)
                /\ last'.chan = "rx"
          /\ (last'.op = "init" /\ last'.chan = "tx") => Channel(dev') = Channel(dev)]_vars

\* both channels are initialised, the one stop command acknowledged
C17_Witness ==
    /\ last = Call("tx", "init", "none", "none")
    /\ pc = "ready"
    /\ dev.ctrl_sent = 1
    /\ dev.ctrl_recvd = 1
    /\ dev.duc_interp = default_interp

====
